---- MODULE Spec2Model ----
(***************************************************************************)
(* Model of the video assembly pipeline of the Reddit video factory:       *)
(*   - src/src/factory/__init__.py : duration-budgeted comment selection   *)
(*   - src/src/builder.py          : probe_duration, render_video and its  *)
(*                                   two rendering strategies              *)
(* Durations and time instants are integers counting tenths of a second    *)
(* (the code uses floats; every sum of the code is taken in the same order *)
(* here).  Comments are identified by their rank in the comment list.      *)
(* Each behaviour is one call made in a fresh process: SpecSelect a call   *)
(* of the comment selection, SpecRender a call of render_video, SpecConcat *)
(* a call of concat_audio, SpecPipe a run of make_from_url (with the       *)
(* selection loop inside it), SpecMonitor one ProgressFfmpeg monitor and   *)
(* the with block around one encoder run, thread by thread.  The other     *)
(* specifications are SpecParallel (generate_tts_parallel), SpecProbe      *)
(* (probe_duration calls of one process and their cache), SpecRuns (two    *)
(* make_from_url runs at once), SpecAuto (automated runs of run.py that    *)
(* share the produced-videos database) and SpecCaptions (the word caption  *)
(* windows, in milliseconds).                                              *)
(***************************************************************************)
EXTENDS Integers, Sequences, FiniteSets, TLC

\* ---------------------------------------------------------------- bounds
MaxComments == 3      \* longest comment list handed to the selection
MaxDur == 2           \* longest probed clip duration
MaxTarget == 3        \* largest target_duration
MaxWords == 1         \* most word timestamps one synthesis returns
MaxImages == 3        \* longest card list enumerated value by value
MaxCardDur == 3       \* longest card duration
MaxSeed == 2          \* longest pattern repeated to build a long card list

\* ------------------------------------------------------ program constants
USE_FILTER_SCRIPT_THRESHOLD == 50
MinTotalLen == 1      \* the 0.1 s floor of total_len, in tenths of a second

DurVals == 0..MaxDur
TargetVals == (-1)..MaxTarget
CommentLists == {[k \in 1..n |-> k - 1] : n \in 0..MaxComments}

\* os.path.join(mp3_dir, f"{i}.mp3") and os.path.join(timestamps_dir, f"{i}_timestamps.json")
Mp3Path(idx) == <<"mp3", idx>>
TimestampsPath(idx) == <<"timestamps", idx>>
Mp3Paths == {Mp3Path(k) : k \in 0..(MaxComments - 1)}

NoFile == [text |-> -1, dur |-> 0, readable |-> FALSE]
NotCached == -1

VARIABLES
    sel_pc,               \* "idle" | "loop" | "returned" | "raised"
    with_timestamps,      \* TRUE: _select_comments_for_duration_with_timestamps
    comments,             \* the ordered comment list of the call
    target_duration,
    i,                    \* index of the loop iteration (0-based, as enumerate)
    selected,
    mp3_paths,
    all_word_timestamps,
    cumulative_duration,
    mp3_files,            \* the files under mp3_dir: path -> content
    ts_files,             \* the timestamp JSON files written
    probe_cache,          \* lru_cache of probe_duration: path -> duration
    synth_log             \* one entry per synthesis attempt of the call

VARIABLES
    render_pc,            \* "idle" | "encoding" | "done" | "raised"
    image_paths,          \* the cards, identified by their position
    image_durations,
    bg_audio_mp3,         \* "" (None) | "missing" (no such file) | "present"
    bg_audio_volume,
    media,                \* stream lengths the encoder found in its inputs
    strategy,             \* "none" | "standard" | "script"
    overlays,             \* the overlay chain handed to the encoder
    total_len,
    mix_bg_audio,
    limits,               \* output-length options of the encoder command
    temp_files,           \* temp files on disk: "progress", "script"
    temp_created,         \* number of temp files created by the call
    monitor_running,
    monitors_started,
    encoder_runs,
    out_duration,         \* duration of the written output, -1 when none
    render_error,         \* "none" | "ValueError" | "RuntimeError" | "OSError"
    encoder_rc,           \* exit code of the encoder process, -1 before it exits
    encoder_stderr,       \* what a failing encoder wrote to stderr
    error_text            \* the text after "ffmpeg failed:" in the raised error

sel_vars == <<sel_pc, with_timestamps, comments, target_duration, i, selected,
              mp3_paths, all_word_timestamps, cumulative_duration, mp3_files,
              ts_files, probe_cache, synth_log>>

render_vars == <<render_pc, image_paths, image_durations, bg_audio_mp3, bg_audio_volume,
                 media, strategy, overlays, total_len, mix_bg_audio, limits, temp_files,
                 temp_created, monitor_running, monitors_started, encoder_runs,
                 out_duration, render_error, encoder_rc, encoder_stderr, error_text>>

VARIABLES
    concat_pc,            \* "idle" | "running" | "returned" | "raised"
    audio_paths,          \* the clips handed to concat_audio, by position
    audio_lens,           \* the duration of each of those clips
    out_mp3,              \* the output file: "absent" | "old" | "partial" | "written"
    out_mp3_before,       \* the output file as it was when concat_audio was called
    out_len,              \* the duration the written output file reports, -1 when none
    concat_procs,         \* ffmpeg processes launched by the call
    concat_probes,        \* probe_duration calls made by the call
    total_duration,       \* the returned value, -1 when none
    concat_error          \* "none" | "ValueError" | "RuntimeError"

concat_vars == <<concat_pc, audio_paths, audio_lens, out_mp3, out_mp3_before, out_len,
                 concat_procs, concat_probes, total_duration, concat_error>>

VARIABLES
    pipe_pc,              \* position of make_from_url: "idle" | "title_tts" | "title_probe"
                          \*   | "select" | "cards" | "assemble" | "returned" | "raised"
    word_captions_enabled,
    cfg_target_duration,  \* the target duration taken from the configuration
    thread_comments,      \* thread.comments as fetched
    title_timestamps,     \* number of word timestamps of the title
    title_duration,
    remaining_duration,
    background,           \* "unread" | "path" | "auto" | "none"
    ext_calls,            \* external invocations make_from_url made itself, in order
    temp_dir,             \* TRUE while assets/temp/<id> exists
    images,               \* the list handed to render_video as image_paths
    durations,            \* the list handed to render_video as image_durations
    word_captions_filter, \* "None" | "filter"
    render_calls,         \* calls of render_video made
    pipe_error,           \* "none" or the exception make_from_url ended with
    keep_temp,            \* the keep_temp argument
    render_started        \* the body of render_video was entered

pipe_vars == <<pipe_pc, word_captions_enabled, cfg_target_duration, thread_comments,
               title_timestamps, title_duration, remaining_duration, background,
               ext_calls, temp_dir, images, durations, word_captions_filter,
               render_calls, pipe_error, keep_temp, render_started>>

VARIABLES
    mon_pc,               \* main thread in the with block: "idle" | "started" | "encoding"
                          \*   | "finally" | "exit" | "joining" | "returned" | "raised"
    thr_pc,               \* monitor thread: "unstarted" | "loop" | "callback" | "exited"
    mon_duration,         \* self.duration, in milliseconds
    mon_last,             \* self._last, as a numerator over mon_duration
    stop_event,
    progress_file,        \* TRUE while the progress file exists
    progress,             \* last out_time the encoder wrote, in ms, NoReading when none
    pending,              \* the value about to be passed to the callback
    reported,             \* the values passed to the callback, in order
    bar_closed,           \* pbar.close() has run
    enc_outcome,          \* "none" | "ok" | "failed" | "exception"
    launched_after_start, \* the monitor thread was started when the encoder was launched
    join_timed_out,
    remove_failed,        \* os.remove(progress_path) raised
    late_callback,        \* the callback was invoked after pbar.close()
    regressed,            \* a reading below the value already reported was read
    missed                \* a read found no out_time in the file

mon_vars == <<mon_pc, thr_pc, mon_duration, mon_last, stop_event, progress_file, progress,
              pending, reported, bar_closed, enc_outcome, launched_after_start,
              join_timed_out, remove_failed, late_callback, regressed, missed>>

VARIABLES
    par_pc,               \* "idle" | "running" | "returned" | "raised"
    par_mode,             \* "none" | "threads" (ThreadPoolExecutor) | "async" (gather)
    par_texts,            \* the texts of the call, identified by their position
    par_paths,            \* len(output_paths)
    par_workers,          \* max_workers of the executor
    capture_word_timings,
    task_state,           \* per segment: "queued" | "running" | "done" | "collected"
    task_out,             \* per segment: what generate_single returned, NoResult before
    par_results,          \* the list `results`
    arrivals,             \* results collected so far
    par_error             \* "none" | "ValueError"

par_vars == <<par_pc, par_mode, par_texts, par_paths, par_workers, capture_word_timings,
              task_state, task_out, par_results, arrivals, par_error>>

VARIABLES
    lru,                  \* the lru_cache of probe_duration, most recently used first
    files,                \* per path: the duration and the version of the file's bytes
    last_probe,           \* per path: value and file version of the latest probe
    prev_probe,           \* per path: the same for the probe before it
    probes,               \* probe_duration calls made on the tracked paths
    writes                \* file rewrites made

probe_vars == <<lru, files, last_probe, prev_probe, probes, writes>>

VARIABLES
    run_pc,               \* per run of make_from_url: the step it is at
    run_thread,           \* per run: thread id, subreddit and title of the fetched thread
    run_written,          \* per run: the file paths it has written
    run_deleted           \* per run: the file paths it has deleted

runs_vars == <<run_pc, run_thread, run_written, run_deleted>>

VARIABLES
    auto_pc,              \* position of the automated run (one process per run)
    auto_runs,            \* automated runs started so far
    db,                   \* ids in the produced-videos database file
    produced_ids,         \* ProducedVideosTracker.produced_ids of the running process
    listings,             \* what search_posts returned, per configured subreddit
    post,                 \* the post find_suitable_post returned, or NoPost
    db_before,            \* the database when the run started
    produced_ok           \* ids whose make_from_url call returned

auto_vars == <<auto_pc, auto_runs, db, produced_ids, listings, post, db_before, produced_ok>>

VARIABLES
    cap_pc,               \* position of the caption stage of make_from_url
    cap_segments,         \* title first, then the selected comments: probed
                          \* duration and segment-local word windows, in ms
    caption_words,        \* all_word_timestamps of the caption stage: the combined list with absolute windows
    cap_enable            \* per word: the bounds of its enable expression

cap_vars == <<cap_pc, cap_segments, caption_words, cap_enable>>

vars == <<sel_vars, render_vars, concat_vars, pipe_vars, mon_vars, par_vars, probe_vars, runs_vars, auto_vars, cap_vars>>

\* ------------------------------------------------------------ selection
\* probe_duration(path): the cached value when the path was probed before,
\* else the duration ffprobe reports for the file (0.0 when it reports none).
probe_duration(cache, path, file) ==
    IF cache[path] # NotCached THEN cache[path] ELSE file.dur

CacheAfterProbe(cache, path, file) ==
    IF cache[path] # NotCached THEN cache
    ELSE [cache EXCEPT ![path] = file.dur]

\* `if cumulative_duration + duration > target_duration`
OverBudgetIgnoringCumulative(cum, duration, target) == duration > target
OverBudget(cum, duration, target) == cum + duration > target

\* `if not selected` : the over-budget comment is kept when nothing is kept yet
AcceptFirstNever(sel) == FALSE
AcceptFirstAlways(sel) == TRUE
AcceptFirst(sel) == sel = <<>>

\* `except Exception as e: ... continue` : what the loop does after a failure
\* of kind "tts", "probe" or "save" inside the try block
ExceptHandlerTtsOnly(kind) == IF kind = "tts" THEN "continue" ELSE "raise"
ExceptHandler(kind) == "continue"

\* word timestamps returned by one synthesis (none without timestamps)
WordCounts(ts) == IF ts THEN 0..MaxWords ELSE {0}

\* the for loop moves to the next comment, or falls through to the return
LoopNext(brk) ==
    IF brk \/ i + 1 >= Len(comments)
    THEN sel_pc' = "returned" /\ i' = i
    ELSE sel_pc' = "loop" /\ i' = i + 1

\* the call: locals initialised, then the loop is entered (or skipped)
SelectEnter(cs, target, ts) ==
    /\ comments' = cs
    /\ target_duration' = target
    /\ with_timestamps' = ts
    /\ sel_pc' = IF cs = <<>> THEN "returned" ELSE "loop"
    /\ i' = 0
    /\ selected' = <<>>
    /\ mp3_paths' = <<>>
    /\ all_word_timestamps' = <<>>
    /\ cumulative_duration' = 0
    /\ synth_log' = <<>>
    /\ UNCHANGED <<mp3_files, ts_files, probe_cache>>

SelectCall ==
    /\ sel_pc = "idle"
    /\ \E cs \in CommentLists, target \in TargetVals, ts \in BOOLEAN :
        SelectEnter(cs, target, ts)

\* a failure inside the try block is handled by the except clause
Failed(kind) ==
    /\ synth_log' = Append(synth_log, [idx |-> i, kind |-> kind, dur |-> 0, over |-> FALSE,
                                        kept |-> FALSE, removed |-> FALSE])
    /\ IF ExceptHandler(kind) = "continue"
       THEN LoopNext(FALSE)
       ELSE sel_pc' = "raised" /\ i' = i
    /\ UNCHANGED <<with_timestamps, comments, target_duration, selected, mp3_paths,
                   all_word_timestamps, cumulative_duration>>

\* tts_to_mp3 / tts_to_mp3_with_timestamps raises: no file is written
SelectTtsFails ==
    /\ sel_pc = "loop"
    /\ Failed("tts")
    /\ UNCHANGED <<mp3_files, ts_files, probe_cache>>

\* the synthesis returns but ffmpeg.probe raises on the file it left
SelectProbeFails ==
    /\ sel_pc = "loop"
    /\ probe_cache[Mp3Path(i)] = NotCached
    /\ mp3_files' = [mp3_files EXCEPT ![Mp3Path(i)] =
                        [text |-> comments[i + 1], dur |-> 0, readable |-> FALSE]]
    /\ Failed("probe")
    /\ UNCHANGED <<ts_files, probe_cache>>

\* synthesis and probe succeed, the synthesis returned word timestamps and
\* save_word_timestamps_json raises while writing them
SelectSaveFails ==
    /\ sel_pc = "loop"
    /\ with_timestamps
    /\ \E d \in DurVals :
        LET path == Mp3Path(i)
            file == [text |-> comments[i + 1], dur |-> d, readable |-> TRUE]
        IN /\ mp3_files' = [mp3_files EXCEPT ![path] = file]
           /\ probe_cache' = CacheAfterProbe(probe_cache, path, file)
    /\ Failed("save")
    /\ UNCHANGED ts_files

\* the try block reaches the budget check
SelectSynthesized ==
    /\ sel_pc = "loop"
    /\ \E d \in DurVals, w \in WordCounts(with_timestamps), rm_ok \in BOOLEAN :
        LET path == Mp3Path(i)
            file == [text |-> comments[i + 1], dur |-> d, readable |-> TRUE]
            duration == probe_duration(probe_cache, path, file)
            over == OverBudget(cumulative_duration, duration, target_duration)
            keep == ~over \/ AcceptFirst(selected)
        IN /\ probe_cache' = CacheAfterProbe(probe_cache, path, file)
           /\ ts_files' = IF w > 0 THEN ts_files \cup {TimestampsPath(i)} ELSE ts_files
           /\ synth_log' = Append(synth_log,
                                  [idx |-> i, kind |-> "ok", dur |-> duration, over |-> over,
                                   kept |-> keep, removed |-> (~keep /\ rm_ok)])
           /\ IF keep
              THEN /\ selected' = Append(selected, comments[i + 1])
                   /\ mp3_paths' = Append(mp3_paths, path)
                   /\ all_word_timestamps' =
                          IF with_timestamps THEN Append(all_word_timestamps, w)
                          ELSE all_word_timestamps
                   /\ mp3_files' = [mp3_files EXCEPT ![path] = file]
              ELSE /\ UNCHANGED <<selected, mp3_paths, all_word_timestamps>>
                   \* os.remove(mp3_path), a failure of which is swallowed
                   /\ mp3_files' = [mp3_files EXCEPT ![path] = IF rm_ok THEN NoFile ELSE file]
           /\ cumulative_duration' =
                  IF over THEN cumulative_duration ELSE cumulative_duration + duration
           /\ LoopNext(over)
    /\ UNCHANGED <<with_timestamps, comments, target_duration>>


\* --------------------------------------------------------------- render
Max(a, b) == IF a >= b THEN a ELSE b
Min(a, b) == IF a <= b THEN a ELSE b

RenderDurVals == 0..MaxCardDur
RECURSIVE SeqsUpTo(_, _)
SeqsUpTo(S, n) ==
    IF n = 0 THEN {<<>>}
    ELSE LET shorter == SeqsUpTo(S, n - 1)
         IN shorter \cup {Append(q, x) : q \in {r \in shorter : Len(r) = n - 1}, x \in S}
Cycled(seed, n) == [k \in 1..n |-> seed[((k - 1) % Len(seed)) + 1]]
\* the duration lists handed to render_video: every short list, and lists
\* around the strategy threshold that repeat a short pattern
DurationLists ==
    SeqsUpTo(RenderDurVals, MaxImages)
    \cup {Cycled(seed, n) : seed \in SeqsUpTo(RenderDurVals, MaxSeed) \ {<<>>},
                            n \in {USE_FILTER_SCRIPT_THRESHOLD, USE_FILTER_SCRIPT_THRESHOLD + 1}}
ImageList(n) == [k \in 1..n |-> k - 1]

\* ffmpeg's expression between(x, min, max): 1 if min <= x <= max
Between(x, lo, hi) == lo <= x /\ x <= hi

\* the two checks at the top of render_video
PreconditionErrorLengthOnly(paths, durs) ==
    IF Len(paths) # Len(durs) THEN "mismatch" ELSE "none"
PreconditionError(paths, durs) ==
    IF Len(paths) # Len(durs) THEN "mismatch"
    ELSE IF paths = <<>> THEN "empty"
    ELSE "none"

\* `use_filter_script = len(image_paths) > USE_FILTER_SCRIPT_THRESHOLD`
UseFilterScriptFromThreshold(paths) == Len(paths) >= USE_FILTER_SCRIPT_THRESHOLD
UseFilterScript(paths) == Len(paths) > USE_FILTER_SCRIPT_THRESHOLD

\* sum(max(0.0, d) for d in image_durations)
RECURSIVE SumClamped(_)
SumClamped(durs) ==
    IF durs = <<>> THEN 0 ELSE Max(0, Head(durs)) + SumClamped(Tail(durs))
RECURSIVE SumSeq(_)
SumSeq(durs) == IF durs = <<>> THEN 0 ELSE Head(durs) + SumSeq(Tail(durs))

\* `total_len = max(0.1, sum(max(0.0, d) for d in image_durations))`
StandardTotalLenUnfloored(durs) == SumSeq(durs)
StandardTotalLen(durs) == Max(MinTotalLen, SumClamped(durs))
ScriptTotalLen(durs) == Max(MinTotalLen, SumClamped(durs))

\* `apply_opacity=(i != 0)` and `if i != 0:` (colorchannelmixer=aa={opacity})
StandardApplyOpacityAll(idx) == TRUE
StandardApplyOpacity(idx) == idx # 0
ScriptApplyOpacity(idx) == idx # 0

\* _render_video_standard: the loop over zip(image_paths, image_durations)
\* chaining overlay_center(bg, p, t, d, apply_opacity=(i != 0)); t += d
RECURSIVE StandardLoop(_, _, _, _, _)
StandardLoop(paths, durs, k, t, chain) ==
    IF k > Min(Len(paths), Len(durs)) THEN chain
    ELSE StandardLoop(paths, durs, k + 1, t + durs[k],
                      Append(chain, [img |-> paths[k], start |-> t, end |-> t + durs[k],
                                     apply_opacity |-> StandardApplyOpacity(k - 1)]))
StandardOverlays(paths, durs) == StandardLoop(paths, durs, 1, 0, <<>>)

\* _render_video_with_script: the loop writing one overlay line per image,
\* enable='between(t,{start_time},{end_time})'; t += dur
RECURSIVE ScriptLoop(_, _, _, _, _)
ScriptLoop(paths, durs, k, t, lines) ==
    IF k > Min(Len(paths), Len(durs)) THEN lines
    ELSE LET start_time == t
             end_time == t + durs[k]
         IN ScriptLoop(paths, durs, k + 1, t + durs[k],
                       Append(lines, [img |-> paths[k], start |-> start_time, end |-> end_time,
                                      apply_opacity |-> ScriptApplyOpacity(k - 1)]))
ScriptOverlays(paths, durs) == ScriptLoop(paths, durs, 1, 0, <<>>)

\* merge_background_audio: the bed is mixed in unless the path is empty,
\* the volume is not positive or the file does not exist
StandardMix(bg_mp3, volume) == ~(bg_mp3 = "" \/ volume <= 0 \/ bg_mp3 # "present")
\* `if bg_audio_mp3 and exists(bg_audio_mp3) and bg_audio_volume > 0`
ScriptMix(bg_mp3, volume) == bg_mp3 # "" /\ bg_mp3 = "present" /\ volume > 0

\* output-length options: shortest=None and t=total_len / "-t", str(total_len)
StandardLimitsNoCap == {"shortest"}
StandardLimits == {"shortest", "t"}
ScriptLimits == {"t"}

\* length of the file the encoder writes: the overlaid video runs as long as
\* the background, the audio as long as the narration (or the longer operand
\* of amix=duration=longest); -shortest ends the output with the shorter
\* stream, without it the longer one decides; -t cuts the output at total.
OutputDuration(lims, total, m, mix) ==
    LET video == m.bg_len
        audio == IF mix THEN Max(m.audio_len, m.bg_audio_len) ELSE m.audio_len
        natural == IF "shortest" \in lims THEN Min(video, audio) ELSE Max(video, audio)
    IN IF "t" \in lims THEN Min(natural, total) ELSE natural

\* stream lengths tried for a declared total: one tick short, equal, one tick long
StreamLens(total) == {total - 1, total, total + 1}
MediaFor(total) ==
    [bg_len : StreamLens(total), audio_len : StreamLens(total), bg_audio_len : {0, total + 1}]
NoMedia == [bg_len |-> 0, audio_len |-> 0, bg_audio_len |-> 0]

\* render_video up to the launch of the encoder process
RenderVideo ==
    /\ render_pc = "idle"
    /\ \E durs \in DurationLists, bg_mp3 \in {"", "missing", "present"}, volume \in {0, 1} :
       \E n \in {0, Len(durs) - 1, Len(durs), Len(durs) + 1} \cap Nat :
        LET paths == ImageList(n)
            err == PreconditionError(paths, durs)
            script == UseFilterScript(paths)
        IN /\ image_paths' = paths
           /\ image_durations' = durs
           /\ bg_audio_mp3' = bg_mp3
           /\ bg_audio_volume' = volume
           /\ IF err # "none"
              THEN /\ render_pc' = "raised"
                   /\ render_error' = "ValueError"
                   /\ UNCHANGED <<strategy, overlays, total_len, mix_bg_audio, limits,
                                  temp_files, temp_created, monitor_running,
                                  monitors_started, encoder_runs>>
              ELSE /\ render_pc' = "encoding"
                   /\ render_error' = "none"
                   /\ strategy' = IF script THEN "script" ELSE "standard"
                   /\ overlays' = IF script THEN ScriptOverlays(paths, durs)
                                  ELSE StandardOverlays(paths, durs)
                   /\ total_len' = IF script THEN ScriptTotalLen(durs)
                                   ELSE StandardTotalLen(durs)
                   /\ mix_bg_audio' = IF script THEN ScriptMix(bg_mp3, volume)
                                      ELSE StandardMix(bg_mp3, volume)
                   /\ limits' = IF script THEN ScriptLimits ELSE StandardLimits
                   \* the filter script (script strategy) and the progress file
                   /\ temp_files' = IF script THEN {"script", "progress"} ELSE {"progress"}
                   /\ temp_created' = IF script THEN 2 ELSE 1
                   /\ monitor_running' = TRUE
                   /\ monitors_started' = monitors_started + 1
                   /\ encoder_runs' = encoder_runs + 1
    /\ UNCHANGED <<media, out_duration, encoder_rc, encoder_stderr, error_text>>

\* `err = e.stderr.decode(...) if e.stderr else str(e)` and
\* `err = result.stderr.decode(...) if result.stderr else "Unknown error"`
StandardErrorTextNoStderr(stderr) == "str(e)"
StandardErrorText(stderr) == IF stderr # "" THEN stderr ELSE "str(e)"
ScriptErrorText(stderr) == IF stderr # "" THEN stderr ELSE "Unknown error"

\* `try: os.remove(...) except Exception: pass`: a failed removal raises nothing
CleanupErrorPropagated(removed) == IF removed THEN "none" ELSE "OSError"
CleanupError(removed) == "none"

\* the encoder process exits; the finally block and ProgressFfmpeg.__exit__ run
EncoderExit ==
    /\ render_pc = "encoding"
    /\ \E rc \in {0, 1}, m \in MediaFor(total_len) \cup {NoMedia}, stderr \in {"", "diagnostics"},
          rm_script \in BOOLEAN, rm_progress \in BOOLEAN :
        LET cleanup == IF "script" \in temp_files /\ CleanupError(rm_script) # "none"
                       THEN CleanupError(rm_script)
                       ELSE CleanupError(rm_progress)
        IN \* a failing encoder writes no output, a successful one no diagnostics
           /\ rc = 0 => (stderr = "" /\ m \in MediaFor(total_len))
           /\ rc # 0 => m = NoMedia
           /\ encoder_rc' = rc
           /\ encoder_stderr' = stderr
           /\ media' = m
           /\ out_duration' = IF rc = 0 THEN OutputDuration(limits, total_len, m, mix_bg_audio)
                              ELSE -1
           /\ render_pc' = IF rc = 0 /\ cleanup = "none" THEN "done" ELSE "raised"
           /\ render_error' = IF cleanup # "none" THEN cleanup
                              ELSE IF rc = 0 THEN "none" ELSE "RuntimeError"
           /\ error_text' = IF rc = 0 \/ cleanup # "none" THEN ""
                            ELSE IF strategy = "script" THEN ScriptErrorText(stderr)
                            ELSE StandardErrorText(stderr)
           /\ temp_files' = (temp_files \ (IF rm_script THEN {"script"} ELSE {}))
                                        \ (IF rm_progress THEN {"progress"} ELSE {})
    /\ monitor_running' = FALSE
    /\ UNCHANGED <<image_paths, image_durations, bg_audio_mp3, bg_audio_volume, strategy,
                   overlays, total_len, mix_bg_audio, limits, temp_created,
                   monitors_started, encoder_runs>>

\* ---------------------------------------------------------- concat_audio
MaxAudio == 3         \* longest clip list handed to concat_audio
ClipLists == SeqsUpTo(DurVals, MaxAudio)

\* `if not audio_paths: raise ValueError(...)`
ConcatPreconditionNever(paths) == FALSE
ConcatPrecondition(paths) == paths = <<>>

\* sum(max(0.0, probe_duration(p)) for p in audio_paths)
ConcatTotalFromOutput(lens, written) == written
ConcatTotal(lens, written) == SumClamped(lens)

\* the duration the container of the concatenated file reports: the sum of
\* the clips, or one tick less or more (encoder padding, frame rounding)
WrittenLens(lens) == {SumSeq(lens) - 1, SumSeq(lens), SumSeq(lens) + 1} \cap Nat

\* concat_audio up to the launch of the ffmpeg process
ConcatAudio ==
    /\ concat_pc = "idle"
    /\ \E lens \in ClipLists, out \in {"absent", "old"} :
        LET paths == ImageList(Len(lens))
        IN /\ audio_paths' = paths
           /\ audio_lens' = lens
           /\ out_mp3' = out
           /\ out_mp3_before' = out
           /\ IF ConcatPrecondition(paths)
              THEN /\ concat_pc' = "raised"
                   /\ concat_error' = "ValueError"
                   /\ UNCHANGED concat_procs
              ELSE /\ concat_pc' = "running"
                   /\ concat_error' = "none"
                   /\ concat_procs' = concat_procs + 1
    /\ UNCHANGED <<concat_probes, total_duration, out_len>>

\* the ffmpeg process exits: ffmpeg.Error becomes RuntimeError, else the
\* clips are probed one by one and their clamped durations summed
ConcatExit ==
    /\ concat_pc = "running"
    /\ \E rc \in {0, 1}, left \in {"partial", "same"}, written \in WrittenLens(audio_lens) :
        IF rc = 0
        THEN /\ out_mp3' = "written"
             /\ out_len' = written
             /\ concat_probes' = concat_probes + Len(audio_paths)
             /\ total_duration' = ConcatTotal(audio_lens, written)
             /\ concat_pc' = "returned"
             /\ concat_error' = "none"
        ELSE /\ out_mp3' = IF left = "partial" THEN "partial" ELSE out_mp3
             /\ concat_pc' = "raised"
             /\ concat_error' = "RuntimeError"
             /\ UNCHANGED <<concat_probes, total_duration, out_len>>
    /\ UNCHANGED <<audio_paths, audio_lens, out_mp3_before, concat_procs>>

\* -------------------------------------------------------- make_from_url
MaxThread == 2        \* most comments fetch_thread returns
\* thread.comments as fetched
ThreadLists == {[k \in 1..n |-> k - 1] : n \in 0..MaxThread}
\* target durations configured: the shortest and the longest
ConfigTargets == {1, MaxTarget}

\* the parameters of render_video, and the keywords of the call in make_from_url
RenderVideoParams ==
    {"background_mp4", "out_mp4", "audio_mp3", "image_paths", "image_durations", "W", "H",
     "screenshot_width", "opacity", "bg_audio_mp3", "bg_audio_volume"}
CallKeywords ==
    {"background_mp4", "out_mp4", "audio_mp3", "image_paths", "image_durations", "W", "H",
     "screenshot_width", "opacity", "bg_audio_mp3", "bg_audio_volume", "word_captions_filter"}
\* binding the keywords of a call to the parameters of a function without **kwargs
BindError(keywords, params) == IF keywords \subseteq params THEN "none" ELSE "TypeError"

\* `remaining_duration = max(0, target_duration - title_duration)`
Remaining(target, title) == Max(0, target - title)

\* `if word_captions_enabled and (title_timestamps or any(comment_timestamps_list))`
WantCaptions(enabled, title_ts, comment_ts) ==
    enabled /\ (title_ts > 0 \/ \E k \in 1..Len(comment_ts) : comment_ts[k] > 0)

\* [probe_duration(title_mp3)] + [probe_duration(p) for p in comment_mp3s]
RECURSIVE CachedDurationsReversed(_, _)
CachedDurationsReversed(cache, paths) ==
    IF paths = <<>> THEN <<>>
    ELSE CachedDurationsReversed(cache, Tail(paths)) \o <<cache[Head(paths)]>>
RECURSIVE CachedDurations(_, _)
CachedDurations(cache, paths) ==
    IF paths = <<>> THEN <<>>
    ELSE <<cache[Head(paths)]>> \o CachedDurations(cache, Tail(paths))

\* `images = [title_png] + comment_pngs`, one comment card per selected comment
CardsCommentsOnly(sel) == ImageList(Len(sel))
Cards(sel) == ImageList(1 + Len(sel))

PipeRaise(err) ==
    /\ pipe_pc' = "raised"
    /\ pipe_error' = err

\* make_from_url from its entry to the synthesis of the title
MakeFromUrl ==
    /\ pipe_pc = "idle"
    /\ \E url \in {"", "no id", "id"}, fetched \in {"error", "no title", "thread"},
          cs \in ThreadLists, target \in ConfigTargets, captions \in BOOLEAN,
          keep \in BOOLEAN :
        /\ cfg_target_duration' = target
        /\ keep_temp' = keep
        /\ word_captions_enabled' = captions
        /\ IF url # "id"
           THEN PipeRaise("ValueError") /\ UNCHANGED <<thread_comments, temp_dir>>
           ELSE IF fetched = "error"
           THEN PipeRaise("FetchError") /\ UNCHANGED <<thread_comments, temp_dir>>
           ELSE IF fetched = "no title"
           THEN PipeRaise("ValueError") /\ thread_comments' = cs /\ UNCHANGED temp_dir
           ELSE /\ thread_comments' = cs
                /\ temp_dir' = TRUE
                /\ pipe_pc' = "title_tts"
                /\ UNCHANGED pipe_error
    /\ UNCHANGED <<title_timestamps, title_duration, remaining_duration, background,
                   ext_calls, images, durations, word_captions_filter, render_calls,
                   render_started>>
    /\ UNCHANGED sel_vars

\* the title is synthesised (with word timestamps when captions are enabled)
TitleTts ==
    /\ pipe_pc = "title_tts"
    /\ ext_calls' = Append(ext_calls, "tts")
    /\ \E ok \in BOOLEAN, w \in WordCounts(word_captions_enabled) :
        IF ok
        THEN /\ title_timestamps' = w
             /\ pipe_pc' = "title_probe"
             /\ UNCHANGED pipe_error
        ELSE PipeRaise("TtsError") /\ UNCHANGED title_timestamps
    /\ UNCHANGED <<word_captions_enabled, cfg_target_duration, thread_comments, title_duration,
                   remaining_duration, background, temp_dir, images, durations,
                   word_captions_filter, render_calls, keep_temp, render_started>>
    /\ UNCHANGED sel_vars

\* the title clip is probed; the selection is entered unless nothing remains
TitleProbe ==
    /\ pipe_pc = "title_probe"
    /\ ext_calls' = Append(ext_calls, "probe")
    /\ \E ok \in BOOLEAN, d \in DurVals :
        IF ok
        THEN /\ title_duration' = d
             /\ remaining_duration' = Remaining(cfg_target_duration, d)
             /\ UNCHANGED pipe_error
             /\ IF Remaining(cfg_target_duration, d) <= 0
                THEN pipe_pc' = "cards" /\ UNCHANGED sel_vars
                ELSE /\ pipe_pc' = "select"
                     /\ SelectEnter(thread_comments, Remaining(cfg_target_duration, d),
                                    word_captions_enabled)
        ELSE /\ PipeRaise("ProbeError")
             /\ UNCHANGED <<title_duration, remaining_duration>>
             /\ UNCHANGED sel_vars
    /\ UNCHANGED <<word_captions_enabled, cfg_target_duration, thread_comments,
                   title_timestamps, background, temp_dir, images, durations,
                   word_captions_filter, render_calls, keep_temp, render_started>>

\* the selection loop runs inside make_from_url
PipeSelectStep ==
    /\ pipe_pc = "select"
    /\ \/ SelectTtsFails
       \/ SelectProbeFails
       \/ SelectSaveFails
       \/ SelectSynthesized
    /\ UNCHANGED pipe_vars

\* the cards are rendered and the background is prepared
PrepareBackground ==
    /\ \/ pipe_pc = "cards"
       \/ pipe_pc = "select" /\ sel_pc = "returned"
    /\ \E bg \in {"path", "auto", "none"}, ok \in BOOLEAN :
        /\ background' = bg
        /\ IF bg = "none"
           THEN PipeRaise("FileNotFoundError") /\ UNCHANGED ext_calls
           ELSE IF bg = "path"
           THEN /\ UNCHANGED ext_calls
                /\ IF ok THEN pipe_pc' = "assemble" /\ UNCHANGED pipe_error
                   ELSE PipeRaise("OSError")
           ELSE /\ ext_calls' = Append(ext_calls, "ffmpeg background")
                /\ IF ok THEN pipe_pc' = "assemble" /\ UNCHANGED pipe_error
                   ELSE PipeRaise("RuntimeError")
    /\ UNCHANGED <<word_captions_enabled, cfg_target_duration, thread_comments,
                   title_timestamps, title_duration, remaining_duration, temp_dir,
                   images, durations, word_captions_filter, render_calls, keep_temp,
                   render_started>>
    /\ UNCHANGED sel_vars

\* the temp workspace after make_from_url ended: `if not keep_temp:
\* shutil.rmtree(temp_dir, ignore_errors=True)` follows the render_video
\* call and is not in a finally clause
TempDirAfterAlwaysCleaned(outcome, keep, dir) == IF keep THEN dir ELSE FALSE
TempDirAfter(outcome, keep, dir) == IF outcome = "returned" /\ ~keep THEN FALSE ELSE dir

\* concat_audio([title_mp3] + comment_mp3s), the argument lists, the caption
\* filter, the call of render_video and the removal of the workspace
Assemble ==
    /\ pipe_pc = "assemble"
    /\ ext_calls' = Append(ext_calls, "ffmpeg concat")
    /\ \E rc \in {0, 1}, rendered \in BOOLEAN :
        IF rc # 0
        THEN /\ PipeRaise("RuntimeError")
             /\ temp_dir' = TempDirAfter("raised", keep_temp, temp_dir)
             /\ UNCHANGED <<images, durations, word_captions_filter, render_calls,
                            render_started>>
        ELSE /\ durations' = <<title_duration>> \o CachedDurations(probe_cache, mp3_paths)
             /\ images' = Cards(selected)
             /\ word_captions_filter' =
                    IF WantCaptions(word_captions_enabled, title_timestamps, all_word_timestamps)
                    THEN "filter" ELSE "None"
             /\ render_calls' = render_calls + 1
             /\ IF BindError(CallKeywords, RenderVideoParams) # "none"
                THEN /\ PipeRaise(BindError(CallKeywords, RenderVideoParams))
                     /\ temp_dir' = TempDirAfter("raised", keep_temp, temp_dir)
                     /\ UNCHANGED render_started
                ELSE /\ render_started' = TRUE
                     /\ IF rendered
                        THEN /\ pipe_pc' = "returned"
                             /\ temp_dir' = TempDirAfter("returned", keep_temp, temp_dir)
                             /\ UNCHANGED pipe_error
                        ELSE /\ PipeRaise("RuntimeError")
                             /\ temp_dir' = TempDirAfter("raised", keep_temp, temp_dir)
    /\ UNCHANGED <<word_captions_enabled, cfg_target_duration, thread_comments,
                   title_timestamps, title_duration, remaining_duration, background,
                   keep_temp>>
    /\ UNCHANGED sel_vars

\* ------------------------------------------------------- ProgressFfmpeg
MaxMonDur == 2        \* longest monitored duration, in seconds
MaxReading == 5       \* largest out_time written, in half seconds
MaxPolls == 3         \* most callbacks of one monitor
NoReading == -1
\* duration_seconds handed to the monitor and out_time values, in milliseconds
MonDurations == {0} \cup {1000 * k : k \in 1..MaxMonDur}
Readings == {500 * k : k \in 0..MaxReading}

\* `self.duration = max(0.001, float(duration_seconds))`
MonDuration(d) == Max(1, d)

\* `p = max(self._last, min(1.0, sec / self.duration))`, as the numerator of
\* the fraction over self.duration
NextReportLatest(last, sec, duration) == Min(duration, sec)
NextReport(last, sec, duration) == Max(last, Min(duration, sec))

\* _read_seconds: None when the file is missing or holds no out_time_ms
ReadSeconds(file, content) == IF file THEN content ELSE NoReading

\* the with statement calls __exit__ however its body ends
ExitRunsOnSuccessOnly(outcome) == outcome = "ok"
ExitRuns(outcome) == TRUE

\* ProgressFfmpeg(total_len, on_update) and __enter__: the progress file is
\* created and the thread started
MonitorEnter ==
    /\ mon_pc = "idle"
    /\ \E d \in MonDurations : mon_duration' = MonDuration(d)
    /\ mon_last' = 0
    /\ progress_file' = TRUE
    /\ thr_pc' = "loop"
    /\ mon_pc' = "started"
    /\ UNCHANGED <<stop_event, progress, pending, reported, bar_closed, enc_outcome,
                   launched_after_start, join_timed_out, remove_failed, late_callback,
                   regressed, missed>>

\* the body of the with statement launches the encoder, or fails to
EncoderLaunch ==
    /\ mon_pc = "started"
    /\ launched_after_start' = (thr_pc # "unstarted")
    /\ \E ok \in BOOLEAN :
        IF ok THEN mon_pc' = "encoding" /\ UNCHANGED enc_outcome
        ELSE mon_pc' = "finally" /\ enc_outcome' = "exception"
    /\ UNCHANGED <<thr_pc, mon_duration, mon_last, stop_event, progress_file, progress,
                   pending, reported, bar_closed, join_timed_out, remove_failed,
                   late_callback, regressed, missed>>

\* the running encoder rewrites the progress file
EncoderWrites ==
    /\ mon_pc = "encoding"
    /\ progress_file
    /\ \E r \in Readings \ {progress} : progress' = r
    /\ UNCHANGED <<mon_pc, thr_pc, mon_duration, mon_last, stop_event, progress_file,
                   pending, reported, bar_closed, enc_outcome, launched_after_start,
                   join_timed_out, remove_failed, late_callback, regressed, missed>>

\* the encoder process exits
EncoderReturns ==
    /\ mon_pc = "encoding"
    /\ \E rc \in {0, 1} : enc_outcome' = IF rc = 0 THEN "ok" ELSE "failed"
    /\ mon_pc' = "finally"
    /\ UNCHANGED <<thr_pc, mon_duration, mon_last, stop_event, progress_file, progress,
                   pending, reported, bar_closed, launched_after_start, join_timed_out,
                   remove_failed, late_callback, regressed, missed>>

\* the finally clause: the bar is filled and closed
Finally ==
    /\ mon_pc = "finally"
    /\ bar_closed' = TRUE
    /\ mon_pc' = IF ExitRuns(enc_outcome) THEN "exit"
                 ELSE IF enc_outcome = "ok" THEN "returned" ELSE "raised"
    /\ UNCHANGED <<thr_pc, mon_duration, mon_last, stop_event, progress_file, progress,
                   pending, reported, enc_outcome, launched_after_start, join_timed_out,
                   remove_failed, late_callback, regressed, missed>>

\* __exit__: `self.stop_event.set()`
ExitStop ==
    /\ mon_pc = "exit"
    /\ stop_event' = TRUE
    /\ mon_pc' = "joining"
    /\ UNCHANGED <<thr_pc, mon_duration, mon_last, progress_file, progress, pending,
                   reported, bar_closed, enc_outcome, launched_after_start, join_timed_out,
                   remove_failed, late_callback, regressed, missed>>

\* __exit__: `self.join(timeout=2)` returns, because the thread ended or the
\* two seconds passed, then the progress file is removed, or not
ExitJoin ==
    /\ mon_pc = "joining"
    /\ join_timed_out' = (thr_pc # "exited")
    /\ \E rm_ok \in BOOLEAN :
        /\ progress_file' = ~rm_ok
        /\ remove_failed' = ~rm_ok
    /\ mon_pc' = IF enc_outcome = "ok" THEN "returned" ELSE "raised"
    /\ UNCHANGED <<thr_pc, mon_duration, mon_last, stop_event, progress, pending, reported,
                   bar_closed, enc_outcome, launched_after_start, late_callback,
                   regressed, missed>>

\* `while not self.stop_event.is_set()`
StopSeenNever(event) == FALSE
StopSeen(event) == event

\* run(): the loop test, _read_seconds and the computation of p
ThreadLoop ==
    /\ thr_pc = "loop"
    /\ LET sec == ReadSeconds(progress_file, progress)
       IN IF StopSeen(stop_event)
          THEN /\ thr_pc' = "exited"
               /\ UNCHANGED <<mon_last, pending, regressed, missed>>
          ELSE IF sec = NoReading
          THEN /\ missed' = TRUE
               /\ UNCHANGED <<thr_pc, mon_last, pending, regressed>>
          ELSE /\ Len(reported) < MaxPolls
               /\ mon_last' = NextReport(mon_last, sec, mon_duration)
               /\ pending' = NextReport(mon_last, sec, mon_duration)
               /\ regressed' = (regressed \/ sec < mon_last)
               /\ thr_pc' = "callback"
               /\ UNCHANGED missed
    /\ UNCHANGED <<mon_pc, mon_duration, stop_event, progress_file, progress, reported,
                   bar_closed, enc_outcome, launched_after_start, join_timed_out,
                   remove_failed, late_callback>>

\* run(): `self.cb(p)`, whose exceptions are swallowed, then the sleep
ThreadCallback ==
    /\ thr_pc = "callback"
    /\ reported' = Append(reported, pending)
    /\ late_callback' = (late_callback \/ bar_closed)
    /\ thr_pc' = "loop"
    /\ UNCHANGED <<mon_pc, mon_duration, mon_last, stop_event, progress_file, progress,
                   pending, bar_closed, enc_outcome, launched_after_start, join_timed_out,
                   remove_failed, regressed, missed>>

\* --------------------------------------------------------- parallel TTS
MaxSegments == 3      \* longest text list handed to the parallel synthesis
MaxWorkers == 2       \* largest max_workers tried
FallbackWorkers == 3  \* max_workers of the pyttsx3 fallback of the async batch
TextLists == {[k \in 1..n |-> k - 1] : n \in 0..MaxSegments}
NoResult == [index |-> -1, success |-> FALSE, word_timings |-> "unset",
             duration |-> -1, error |-> "unset"]

\* generate_single / generate_single_async: the tuple returned for a segment
\* whose synthesis and probe succeeded, and the one of the except clause
SingleOk(index, capture, d) ==
    [index |-> index, success |-> TRUE,
     word_timings |-> IF capture THEN "timings" ELSE "empty", duration |-> d, error |-> "None"]
SingleFailed(index) ==
    [index |-> index, success |-> FALSE, word_timings |-> "None", duration |-> -1,
     error |-> "str(e)"]

\* `results[index] = (success, word_timings, duration, error)`: the slot is
\* the index carried by the result, not its rank of arrival
SlotByArrival(index, arrival) == arrival
Slot(index, arrival) == index

\* the loop over `completed` after asyncio.gather
RECURSIVE AssignAll(_, _, _)
AssignAll(results, outs, k) ==
    IF k > Len(outs) THEN results
    ELSE AssignAll([results EXCEPT ![Slot(outs[k].index, k - 1) + 1] = outs[k]], outs, k + 1)

Running == {k \in 1..Len(par_texts) : task_state[k] = "running"}

\* generate_tts_parallel / generate_tts_async_batch up to the submission of the tasks
ParallelCall ==
    /\ par_pc = "idle"
    /\ \E texts \in TextLists, extra \in {0, 1}, mode \in {"threads", "async"},
          engine \in {"edge_tts", "pyttsx3"}, workers \in 1..MaxWorkers, capture \in BOOLEAN :
        LET n == Len(texts)
        IN /\ par_texts' = texts
           /\ par_paths' = n + extra
           /\ capture_word_timings' = capture
           /\ par_workers' = IF mode = "async" THEN FallbackWorkers ELSE workers
           /\ IF extra # 0
              THEN /\ par_pc' = "raised"
                   /\ par_error' = "ValueError"
                   /\ UNCHANGED <<par_mode, task_state, task_out, par_results>>
              ELSE IF n = 0
              THEN /\ par_pc' = "returned"
                   /\ par_results' = <<>>
                   /\ UNCHANGED <<par_mode, task_state, task_out, par_error>>
              ELSE /\ par_pc' = "running"
                   /\ par_mode' = IF mode = "async" /\ engine = "edge_tts" THEN "async"
                                  ELSE "threads"
                   /\ task_state' = [k \in 1..n |-> "queued"]
                   /\ task_out' = [k \in 1..n |-> NoResult]
                   /\ par_results' = [k \in 1..n |-> NoResult]
                   /\ UNCHANGED par_error
    /\ UNCHANGED arrivals

\* a worker thread takes a queued task, or the event loop starts a coroutine
TaskStart ==
    /\ par_pc = "running"
    /\ \E k \in 1..Len(par_texts) :
        /\ task_state[k] = "queued"
        /\ par_mode = "threads" => Cardinality(Running) < par_workers
        /\ task_state' = [task_state EXCEPT ![k] = "running"]
    /\ UNCHANGED <<par_pc, par_mode, par_texts, par_paths, par_workers, capture_word_timings,
                   task_out, par_results, arrivals, par_error>>

\* a task ends: synthesis and probe succeeded, or an exception was caught
TaskFinish ==
    /\ par_pc = "running"
    /\ \E k \in 1..Len(par_texts), ok \in BOOLEAN, d \in DurVals :
        /\ task_state[k] = "running"
        /\ ~ok => d = 0
        /\ task_state' = [task_state EXCEPT ![k] = "done"]
        /\ task_out' = [task_out EXCEPT ![k] =
                            IF ok THEN SingleOk(par_texts[k], capture_word_timings, d)
                            ELSE SingleFailed(par_texts[k])]
    /\ UNCHANGED <<par_pc, par_mode, par_texts, par_paths, par_workers, capture_word_timings,
                   par_results, arrivals, par_error>>

\* `for future in as_completed(futures)`: the next finished future is stored
Collect ==
    /\ par_pc = "running"
    /\ par_mode = "threads"
    /\ \E k \in 1..Len(par_texts) :
        /\ task_state[k] = "done"
        /\ task_state' = [task_state EXCEPT ![k] = "collected"]
        /\ par_results' =
              [par_results EXCEPT ![Slot(task_out[k].index, arrivals) + 1] = task_out[k]]
    /\ arrivals' = arrivals + 1
    /\ UNCHANGED <<par_pc, par_mode, par_texts, par_paths, par_workers, capture_word_timings,
                   task_out, par_error>>

\* the executor is shut down and `results` returned
ParallelReturn ==
    /\ par_pc = "running"
    /\ par_mode = "threads"
    /\ \A k \in 1..Len(par_texts) : task_state[k] = "collected"
    /\ par_pc' = "returned"
    /\ UNCHANGED <<par_mode, par_texts, par_paths, par_workers, capture_word_timings,
                   task_state, task_out, par_results, arrivals, par_error>>

\* asyncio.gather returns once every coroutine is done; the results are
\* stored by index and returned
GatherReturn ==
    /\ par_pc = "running"
    /\ par_mode = "async"
    /\ \A k \in 1..Len(par_texts) : task_state[k] = "done"
    /\ par_results' = AssignAll(par_results, task_out, 1)
    /\ arrivals' = Len(par_texts)
    /\ task_state' = [k \in 1..Len(par_texts) |-> "collected"]
    /\ par_pc' = "returned"
    /\ UNCHANGED <<par_mode, par_texts, par_paths, par_workers, capture_word_timings,
                   task_out, par_error>>

\* ---------------------------------------- probe_duration and its cache
LruMaxSize == 128     \* @lru_cache(maxsize=128)
MaxProbePaths == 2    \* paths whose probes are followed
MaxProbes == 3        \* probe_duration calls on the followed paths
MaxWrites == 2        \* rewrites of followed files
ProbePaths == 0..(MaxProbePaths - 1)
\* other paths probed in between, each of them once: a batch that leaves one
\* slot of the cache, and a batch that fills it
FillerBatches == {LruMaxSize - 1, LruMaxSize}
NoProbe == [val |-> -1, ver |-> -1]
Unwritten == [dur |-> -1, ver |-> 0]  \* nothing written at the path yet

\* cache entries: one per followed path, and runs of entries of other paths
PathEntry(path, val) == [kind |-> "path", path |-> path, val |-> val, n |-> 1]
FillEntry(n) == [kind |-> "fill", path |-> -1, val |-> -1, n |-> n]

\* the cache keeps the maxsize most recently used entries
RECURSIVE Truncate(_, _)
Truncate(cache, room) ==
    IF cache = <<>> \/ room <= 0 THEN <<>>
    ELSE IF Head(cache).n <= room
    THEN <<Head(cache)>> \o Truncate(Tail(cache), room - Head(cache).n)
    ELSE <<FillEntry(room)>>
\* adjacent runs of other paths are one run
RECURSIVE Merged(_)
Merged(cache) ==
    IF Len(cache) < 2 THEN cache
    ELSE IF cache[1].kind = "fill" /\ cache[2].kind = "fill"
    THEN Merged(<<FillEntry(cache[1].n + cache[2].n)>> \o Tail(Tail(cache)))
    ELSE <<cache[1]>> \o Merged(Tail(cache))
Without(cache, path) == SelectSeq(cache, LAMBDA e : ~(e.kind = "path" /\ e.path = path))
Cached(cache, path) == \E k \in 1..Len(cache) : cache[k].kind = "path" /\ cache[k].path = path
CachedVal(cache, path) ==
    LET k == CHOOSE j \in 1..Len(cache) : cache[j].kind = "path" /\ cache[j].path = path
    IN cache[k].val

\* probe_duration(path): a hit returns the stored value, a miss runs ffprobe
\* on the file as it is now and stores what it reports
ProbeValue(cache, path, file) ==
    IF Cached(cache, path) THEN CachedVal(cache, path) ELSE file.dur
LruAfter(cache, entry) ==
    Merged(Truncate(<<entry>> \o Without(cache, entry.path), LruMaxSize))

\* probe_duration is called on a followed path
Probe ==
    /\ probes < MaxProbes
    /\ \E path \in ProbePaths :
        \* ffprobe fails on a missing file, the exception is not cached
        /\ Cached(lru, path) \/ files[path] # Unwritten
        /\ LET v == ProbeValue(lru, path, files[path])
           IN /\ lru' = LruAfter(lru, PathEntry(path, v))
              /\ prev_probe' = [prev_probe EXCEPT ![path] = last_probe[path]]
              /\ last_probe' = [last_probe EXCEPT ![path] = [val |-> v, ver |-> files[path].ver]]
    /\ probes' = probes + 1
    /\ UNCHANGED <<files, writes>>

\* probe_duration is called once on each of a batch of other paths
ProbeOthers ==
    /\ \E n \in FillerBatches :
        /\ lru' = Merged(Truncate(<<FillEntry(n)>> \o lru, LruMaxSize))
        /\ lru' # lru
    /\ UNCHANGED <<files, last_probe, prev_probe, probes, writes>>

\* a followed file is written again (a new synthesis to the same path)
RewriteFile ==
    /\ writes < MaxWrites
    /\ \E path \in ProbePaths, d \in DurVals :
        files' = [files EXCEPT ![path] = [dur |-> d, ver |-> files[path].ver + 1]]
    /\ writes' = writes + 1
    /\ UNCHANGED <<lru, last_probe, prev_probe, probes>>

\* --------------------------------------- two make_from_url runs at once
Runs == {1, 2}
\* thread ids as Reddit issues them, titles with a character the file name
\* loses and with white space
ThreadIds == {<<"a">>, <<"a", "b">>, <<"b", "a">>}
Subreddits == {<<"s">>, <<"t">>}
Titles == {<<"a">>, <<"a", "?">>, <<"a", " ">>, <<"?">>, <<"b">>}
WordChars == {"a", "b"}
Forbidden == {"?"}
MaxFileName == 120    \* _sanitize_filename(thread.title)[:120]
NoThread == [id |-> <<>>, subreddit |-> <<>>, title |-> <<>>]

RECURSIVE Strip(_)
Strip(s) ==
    IF s # <<>> /\ Head(s) = " " THEN Strip(Tail(s))
    ELSE IF s # <<>> /\ s[Len(s)] = " " THEN Strip(SubSeq(s, 1, Len(s) - 1))
    ELSE s
RECURSIVE Collapse(_)
Collapse(s) ==
    IF Len(s) < 2 THEN s
    ELSE IF s[1] = " " /\ s[2] = " " THEN Collapse(Tail(s))
    ELSE <<s[1]>> \o Collapse(Tail(s))

\* re.sub(r"[^\w\s-]", "", s or "").strip() or "thread"
SanitizeFolder(s) ==
    LET kept == Strip(SelectSeq(s, LAMBDA c : c \in WordChars \cup {" ", "-"}))
    IN IF kept = <<>> THEN <<"thread">> ELSE kept
\* the forbidden characters removed, white space collapsed and stripped, or "video"
SanitizeFilename(s) ==
    LET kept == Strip(Collapse(SelectSeq(IF s = <<>> THEN <<"video">> ELSE s,
                                         LAMBDA c : c \notin Forbidden)))
    IN IF kept = <<>> THEN <<"video">> ELSE kept

\* assets/temp/<reddit_id>
TempDirShared(id) == <<"thread">>
TempDir(id) == SanitizeFolder(id)
TempPath(id, name) == [root |-> "assets/temp", dir |-> TempDir(id), name |-> <<name>>]
\* results/<subreddit>/<title>.mp4
OutPath(thread) ==
    [root |-> "results", dir |-> thread.subreddit,
     name |-> SubSeq(SanitizeFilename(thread.title), 1,
                     IF Len(SanitizeFilename(thread.title)) < MaxFileName
                     THEN Len(SanitizeFilename(thread.title)) ELSE MaxFileName) \o <<".mp4">>]
TempNames == {"thread.json", "png/title.png", "mp3/title.mp3", "mp3/0.mp3", "png/0.png",
              "background.mp4", "audio.mp3"}

\* one step of a run: it writes and deletes files of its workspace, or raises
RunStep(r, from, to, written_now, deleted_now) ==
    /\ run_pc[r] = from
    /\ \E ok \in BOOLEAN :
        IF ok
        THEN /\ run_pc' = [run_pc EXCEPT ![r] = to]
             /\ run_written' = [run_written EXCEPT
                    ![r] = @ \cup {TempPath(run_thread[r].id, n) : n \in written_now}]
             /\ run_deleted' = [run_deleted EXCEPT
                    ![r] = @ \cup {TempPath(run_thread[r].id, n) : n \in deleted_now}]
        ELSE /\ run_pc' = [run_pc EXCEPT ![r] = "raised"]
             /\ UNCHANGED <<run_written, run_deleted>>
    /\ UNCHANGED run_thread

\* fetch_thread returned the thread; the workspace is created and thread.json written
RunWorkspace ==
    \E r \in Runs, id \in ThreadIds, sub \in Subreddits, title \in Titles :
        /\ run_pc[r] = "idle"
        /\ run_thread' = [run_thread EXCEPT
                ![r] = [id |-> id, subreddit |-> sub, title |-> title]]
        /\ run_pc' = [run_pc EXCEPT ![r] = "workspace"]
        /\ run_written' = [run_written EXCEPT ![r] = {TempPath(id, "thread.json")}]
        /\ UNCHANGED run_deleted
\* the title card and the title narration
RunTitle ==
    \E r \in Runs : RunStep(r, "workspace", "title", {"png/title.png", "mp3/title.mp3"}, {})
\* the selection writes a comment's narration and keeps it or removes it
RunSelect ==
    \E r \in Runs, kept \in BOOLEAN :
        RunStep(r, "title", "selected",
                IF kept THEN {"mp3/0.mp3", "png/0.png"} ELSE {"mp3/0.mp3"},
                IF kept THEN {} ELSE {"mp3/0.mp3"})
\* the background and the concatenated narration
RunAudio ==
    \E r \in Runs : RunStep(r, "selected", "assemble", {"background.mp4", "audio.mp3"}, {})
\* the render_video call, and on its return the removal of the workspace
RunRender ==
    \E r \in Runs, keep \in BOOLEAN :
        /\ run_pc[r] = "assemble"
        /\ IF BindError(CallKeywords, RenderVideoParams) # "none"
           THEN /\ run_pc' = [run_pc EXCEPT ![r] = "raised"]
                /\ UNCHANGED <<run_written, run_deleted>>
           ELSE /\ run_pc' = [run_pc EXCEPT ![r] = "returned"]
                /\ run_written' = [run_written EXCEPT ![r] = @ \cup {OutPath(run_thread[r])}]
                /\ run_deleted' = [run_deleted EXCEPT
                       ![r] = IF keep THEN @
                              ELSE @ \cup {TempPath(run_thread[r].id, n) : n \in TempNames}]
        /\ UNCHANGED run_thread

\* ------------------------------------------------------- automated mode
MaxPosts == 3         \* distinct thread ids the listings draw from
MaxListing == 2       \* posts of one listing that pass the filters
MaxAutoRuns == 2      \* automated runs that share the database
PostIds == 1..MaxPosts
NoPost == 0
AutoSubreddits == 1..2          \* cfg.automation.subreddits, in order
\* what search_posts can return for one subreddit: the posts that pass the
\* filters in listing order, [] after a request error
PostLists ==
    {list \in UNION {[1..n -> PostIds] : n \in 0..MaxListing} :
        \A x, y \in 1..Len(list) : x # y => list[x] # list[y]}

\* ProducedVideosTracker._load
Load(file) == file
\* the inner loop of find_suitable_post
FirstAny(posts, ids) == IF posts = <<>> THEN NoPost ELSE Head(posts)
RECURSIVE FirstNew(_, _)
FirstNew(posts, ids) ==
    IF posts = <<>> THEN NoPost
    ELSE IF Head(posts) \notin ids THEN Head(posts)
    ELSE FirstNew(Tail(posts), ids)
\* find_suitable_post: the subreddits in order, the first listing with a new post
RECURSIVE FindSuitablePost(_, _, _)
FindSuitablePost(found, sub, ids) ==
    IF sub \notin AutoSubreddits THEN NoPost
    ELSE IF FirstNew(found[sub], ids) # NoPost THEN FirstNew(found[sub], ids)
    ELSE FindSuitablePost(found, sub + 1, ids)
\* run.py: mark_produced is the statement after make_from_url inside the try
MarkedAlways(outcome, ids, id) == ids \cup {id}
Marked(outcome, ids, id) == IF outcome = "returned" THEN ids \cup {id} ELSE ids

\* the database file holds ids of earlier productions when the first run starts
DbFound ==
    /\ auto_pc = "idle" /\ auto_runs = 0 /\ db = {}
    /\ db' \in SUBSET PostIds \ {{}}
    /\ UNCHANGED <<auto_pc, auto_runs, produced_ids, listings, post, db_before, produced_ok>>

\* main() in automated mode: the tracker is built from the database
AutoStart ==
    /\ auto_pc = "idle" /\ auto_runs < MaxAutoRuns
    /\ auto_runs' = auto_runs + 1
    /\ produced_ids' = Load(db)
    /\ db_before' = db
    /\ auto_pc' = "loaded"
    /\ UNCHANGED <<db, listings, post, produced_ok>>

\* searcher.find_suitable_post(...); main returns when there is no post
AutoSearch ==
    /\ auto_pc = "loaded"
    /\ \E found \in [AutoSubreddits -> PostLists] :
        /\ listings' = found
        /\ post' = FindSuitablePost(found, 1, produced_ids)
        /\ auto_pc' = IF FindSuitablePost(found, 1, produced_ids) = NoPost
                      THEN "exited" ELSE "found"
    /\ UNCHANGED <<auto_runs, db, produced_ids, db_before, produced_ok>>

\* factory.make_from_url(post.url) inside the try, then mark_produced; _save
\* swallows its own errors, so the file may keep its old contents
AutoMake ==
    /\ auto_pc = "found"
    /\ \E returned \in BOOLEAN, saved \in BOOLEAN :
        LET outcome == IF returned /\ BindError(CallKeywords, RenderVideoParams) = "none"
                       THEN "returned" ELSE "raised"
        IN /\ produced_ids' = Marked(outcome, produced_ids, post)
           /\ db' = IF saved THEN Marked(outcome, produced_ids, post) ELSE db
           /\ produced_ok' = IF outcome = "returned" THEN produced_ok \cup {post}
                             ELSE produced_ok
           /\ auto_pc' = IF outcome = "returned" THEN "succeeded" ELSE "failed"
    /\ UNCHANGED <<auto_runs, listings, post, db_before>>

\* the process ends; the next run is a new process with a new tracker
AutoExit ==
    /\ auto_pc \in {"exited", "succeeded", "failed"}
    /\ auto_pc' = "idle"
    /\ produced_ids' = {}
    /\ listings' = [s \in AutoSubreddits |-> <<>>]
    /\ post' = NoPost
    /\ UNCHANGED <<auto_runs, db, db_before, produced_ok>>

\* ------------------------------------------------- word caption windows
MaxCapMs == 2         \* probed durations and word times, in milliseconds
CapTimes == 0..MaxCapMs
\* a segment's synthesis reports no word or one word
CapWords == {<<>>} \cup {<<[start_ms |-> a, end_ms |-> b]>> : a \in CapTimes, b \in CapTimes}
CapSegment == [dur : CapTimes, words : {w \in CapWords : w = <<>> \/ w[1].start_ms <= w[1].end_ms}]
CapSegmentLists == UNION {[1..n -> CapSegment] : n \in 1..3}

\* cumulative_time when segment seg is reached: 1000 * the probed durations
\* of the segments before it, in order
RECURSIVE CumulativeTime(_, _)
CumulativeTime(segs, seg) ==
    IF seg <= 1 THEN 0 ELSE CumulativeTime(segs, seg - 1) + segs[seg - 1].dur
\* the two loops that fill all_word_timestamps
RECURSIVE Combined(_, _)
Combined(segs, seg) ==
    IF seg > Len(segs) THEN <<>>
    ELSE [k \in 1..Len(segs[seg].words) |->
            [seg |-> seg, k |-> k,
             start_ms |-> segs[seg].words[k].start_ms + CumulativeTime(segs, seg),
             end_ms |-> segs[seg].words[k].end_ms + CumulativeTime(segs, seg)]]
         \o Combined(segs, seg + 1)
\* enable='between(t,{start_sec:.3f},{end_sec:.3f})': the window in
\* thousandths of a second
EnableBounds(wt) == [lo |-> wt.start_ms, hi |-> wt.end_ms]
EnabledAt(t, bounds) == Between(t, bounds.lo, bounds.hi)

\* the narrations are synthesized and probed
CaptionsEnter ==
    /\ cap_pc = "idle"
    /\ cap_segments' \in CapSegmentLists
    /\ cap_pc' = "probed"
    /\ UNCHANGED <<caption_words, cap_enable>>
\* word captions enabled and some segment has a word: the combined list and
\* the drawtext chain are built; otherwise there is no filter
CaptionsBuild ==
    /\ cap_pc = "probed"
    /\ IF \E seg \in 1..Len(cap_segments) : cap_segments[seg].words # <<>>
       THEN /\ caption_words' = Combined(cap_segments, 1)
            /\ cap_enable' = [w \in 1..Len(Combined(cap_segments, 1)) |->
                                 EnableBounds(Combined(cap_segments, 1)[w])]
            /\ cap_pc' = "filter"
       ELSE /\ cap_pc' = "none"
            /\ UNCHANGED <<caption_words, cap_enable>>
    /\ UNCHANGED cap_segments

InitSelect ==
    /\ sel_pc = "idle"
    /\ with_timestamps = FALSE
    /\ comments = <<>>
    /\ target_duration = 0
    /\ i = 0
    /\ selected = <<>>
    /\ mp3_paths = <<>>
    /\ all_word_timestamps = <<>>
    /\ cumulative_duration = 0
    /\ mp3_files = [p \in Mp3Paths |-> NoFile]
    /\ ts_files = {}
    /\ probe_cache = [p \in Mp3Paths |-> NotCached]
    /\ synth_log = <<>>

InitRender ==
    /\ render_pc = "idle"
    /\ image_paths = <<>>
    /\ image_durations = <<>>
    /\ bg_audio_mp3 = ""
    /\ bg_audio_volume = 0
    /\ media = NoMedia
    /\ strategy = "none"
    /\ overlays = <<>>
    /\ total_len = 0
    /\ mix_bg_audio = FALSE
    /\ limits = {}
    /\ temp_files = {}
    /\ temp_created = 0
    /\ monitor_running = FALSE
    /\ monitors_started = 0
    /\ encoder_runs = 0
    /\ out_duration = -1
    /\ render_error = "none"
    /\ encoder_rc = -1
    /\ encoder_stderr = ""
    /\ error_text = ""

InitConcat ==
    /\ concat_pc = "idle"
    /\ audio_paths = <<>>
    /\ audio_lens = <<>>
    /\ out_mp3 = "absent"
    /\ out_mp3_before = "absent"
    /\ out_len = -1
    /\ concat_procs = 0
    /\ concat_probes = 0
    /\ total_duration = -1
    /\ concat_error = "none"

InitPipe ==
    /\ pipe_pc = "idle"
    /\ word_captions_enabled = FALSE
    /\ cfg_target_duration = 0
    /\ thread_comments = <<>>
    /\ title_timestamps = 0
    /\ title_duration = 0
    /\ remaining_duration = 0
    /\ background = "unread"
    /\ ext_calls = <<>>
    /\ temp_dir = FALSE
    /\ images = <<>>
    /\ durations = <<>>
    /\ word_captions_filter = "None"
    /\ render_calls = 0
    /\ pipe_error = "none"
    /\ keep_temp = FALSE
    /\ render_started = FALSE

InitMonitor ==
    /\ mon_pc = "idle"
    /\ thr_pc = "unstarted"
    /\ mon_duration = 1
    /\ mon_last = 0
    /\ stop_event = FALSE
    /\ progress_file = FALSE
    /\ progress = NoReading
    /\ pending = 0
    /\ reported = <<>>
    /\ bar_closed = FALSE
    /\ enc_outcome = "none"
    /\ launched_after_start = FALSE
    /\ join_timed_out = FALSE
    /\ remove_failed = FALSE
    /\ late_callback = FALSE
    /\ regressed = FALSE
    /\ missed = FALSE

InitParallel ==
    /\ par_pc = "idle"
    /\ par_mode = "none"
    /\ par_texts = <<>>
    /\ par_paths = 0
    /\ par_workers = 1
    /\ capture_word_timings = FALSE
    /\ task_state = <<>>
    /\ task_out = <<>>
    /\ par_results = <<>>
    /\ arrivals = 0
    /\ par_error = "none"

InitProbe ==
    /\ lru = <<>>
    /\ files = [p \in ProbePaths |-> Unwritten]
    /\ last_probe = [p \in ProbePaths |-> NoProbe]
    /\ prev_probe = [p \in ProbePaths |-> NoProbe]
    /\ probes = 0
    /\ writes = 0

InitRuns ==
    /\ run_pc = [r \in Runs |-> "idle"]
    /\ run_thread = [r \in Runs |-> NoThread]
    /\ run_written = [r \in Runs |-> {}]
    /\ run_deleted = [r \in Runs |-> {}]

InitAuto ==
    /\ auto_pc = "idle"
    /\ auto_runs = 0
    /\ db = {}
    /\ produced_ids = {}
    /\ listings = [s \in AutoSubreddits |-> <<>>]
    /\ post = NoPost
    /\ db_before = {}
    /\ produced_ok = {}

InitCaptions ==
    /\ cap_pc = "idle"
    /\ cap_segments = <<>>
    /\ caption_words = <<>>
    /\ cap_enable = <<>>

Init ==
    /\ InitSelect /\ InitRender /\ InitConcat /\ InitPipe /\ InitMonitor /\ InitParallel
    /\ InitProbe
    /\ InitRuns
    /\ InitAuto
    /\ InitCaptions

NextSelect ==
    \/ SelectCall
    \/ SelectTtsFails
    \/ SelectProbeFails
    \/ SelectSaveFails
    \/ SelectSynthesized

NextRender ==
    \/ RenderVideo
    \/ EncoderExit

NextConcat ==
    \/ ConcatAudio
    \/ ConcatExit

NextMonitor ==
    \/ MonitorEnter
    \/ EncoderLaunch
    \/ EncoderWrites
    \/ EncoderReturns
    \/ Finally
    \/ ExitStop
    \/ ExitJoin
    \/ ThreadLoop
    \/ ThreadCallback

NextParallel ==
    \/ ParallelCall
    \/ TaskStart
    \/ TaskFinish
    \/ Collect
    \/ ParallelReturn
    \/ GatherReturn

NextRuns ==
    \/ RunWorkspace
    \/ RunTitle
    \/ RunSelect
    \/ RunAudio
    \/ RunRender

NextAuto ==
    \/ DbFound
    \/ AutoStart
    \/ AutoSearch
    \/ AutoMake
    \/ AutoExit

NextCaptions ==
    \/ CaptionsEnter
    \/ CaptionsBuild

NextProbe ==
    \/ Probe
    \/ ProbeOthers
    \/ RewriteFile

NextPipe ==
    \/ MakeFromUrl
    \/ TitleTts
    \/ TitleProbe
    \/ PipeSelectStep
    \/ PrepareBackground
    \/ Assemble

\* one call of the selection in a fresh process
SpecSelect == Init /\ [][NextSelect /\ UNCHANGED <<render_vars, concat_vars, pipe_vars, mon_vars, par_vars, probe_vars, runs_vars, auto_vars, cap_vars>>]_vars
\* one call of render_video in a fresh process
SpecRender == Init /\ [][NextRender /\ UNCHANGED <<sel_vars, concat_vars, pipe_vars, mon_vars, par_vars, probe_vars, runs_vars, auto_vars, cap_vars>>]_vars
\* one call of concat_audio in a fresh process
SpecConcat == Init /\ [][NextConcat /\ UNCHANGED <<sel_vars, render_vars, pipe_vars, mon_vars, par_vars, probe_vars, runs_vars, auto_vars, cap_vars>>]_vars
\* one run of make_from_url in a fresh process
SpecPipe == Init /\ [][NextPipe /\ UNCHANGED <<render_vars, concat_vars, mon_vars, par_vars, probe_vars, runs_vars, auto_vars, cap_vars>>]_vars
\* one ProgressFfmpeg monitor around one encoder run
SpecMonitor ==
    Init /\ [][NextMonitor /\ UNCHANGED <<sel_vars, render_vars, concat_vars, pipe_vars, par_vars, probe_vars, runs_vars, auto_vars, cap_vars>>]_vars
\* one call of generate_tts_parallel or generate_tts_async_batch
\* two calls of make_from_url running at the same time
SpecRuns ==
    Init /\ [][NextRuns /\ UNCHANGED <<sel_vars, render_vars, concat_vars, pipe_vars, mon_vars,
                                       par_vars, probe_vars, auto_vars, cap_vars>>]_vars

\* a sequence of automated runs of run.py that share one database
SpecAuto ==
    Init /\ [][NextAuto /\ UNCHANGED <<sel_vars, render_vars, concat_vars, pipe_vars, mon_vars,
                                       par_vars, probe_vars, runs_vars, cap_vars>>]_vars

\* the caption stage of one make_from_url call
SpecCaptions ==
    Init /\ [][NextCaptions /\ UNCHANGED <<sel_vars, render_vars, concat_vars, pipe_vars,
                                           mon_vars, par_vars, probe_vars, runs_vars,
                                           auto_vars>>]_vars

SpecProbe ==
    Init /\ [][NextProbe /\ UNCHANGED <<sel_vars, render_vars, concat_vars, pipe_vars, mon_vars,
                                        par_vars, runs_vars, auto_vars, cap_vars>>]_vars
\* one call of generate_tts_parallel or generate_tts_async_batch
SpecParallel ==
    Init /\ [][NextParallel /\ UNCHANGED <<sel_vars, render_vars, concat_vars, pipe_vars, mon_vars, probe_vars, runs_vars, auto_vars, cap_vars>>]_vars

\* the process makes one call at a time
Next ==
    \/ render_pc = "idle" /\ NextSelect
       /\ UNCHANGED <<render_vars, concat_vars, pipe_vars, mon_vars, par_vars, probe_vars, runs_vars, auto_vars, cap_vars>>
    \/ sel_pc = "idle" /\ NextRender
       /\ UNCHANGED <<sel_vars, concat_vars, pipe_vars, mon_vars, par_vars, probe_vars, runs_vars, auto_vars, cap_vars>>
Spec == Init /\ [][Next]_vars

\* ------------------------------------------------- properties: selection
Range(q) == {q[k] : k \in 1..Len(q)}
LogIdx == 1..Len(synth_log)
\* the duration probe_duration returned for each returned clip, summed
RECURSIVE ProbedSum(_)
ProbedSum(paths) ==
    IF paths = <<>> THEN 0 ELSE probe_cache[Head(paths)] + ProbedSum(Tail(paths))
\* the durations of the log entries that were accepted within the budget
RECURSIVE FittedSum(_)
FittedSum(log) ==
    IF log = <<>> THEN 0
    ELSE (IF Head(log).kept /\ ~Head(log).over THEN Head(log).dur ELSE 0) + FittedSum(Tail(log))

FirstAcceptedOverBudget ==
    /\ Len(mp3_paths) = 1
    /\ \E e \in LogIdx :
        /\ synth_log[e].kept /\ synth_log[e].over
        /\ Mp3Path(synth_log[e].idx) = mp3_paths[1]
        /\ \A f \in 1..(e - 1) : ~synth_log[f].kept

\* C2 as claimed: the probed durations of the returned clips sum to at most
\* target_duration, unless exactly one clip is returned and it was accepted
\* as the first accepted segment while over budget.
C2_Original ==
    sel_pc = "returned" =>
        ProbedSum(mp3_paths) <= target_duration \/ FirstAcceptedOverBudget

\* C2 amended: whenever at least one clip is returned, the probed durations
\* of the returned clips sum to at most target_duration, unless exactly one
\* clip is returned and it was accepted as the first accepted segment while
\* over budget (an empty result sums to 0, above a negative target_duration).
C2_BudgetRespected ==
    (sel_pc = "returned" /\ mp3_paths # <<>>) =>
        ProbedSum(mp3_paths) <= target_duration \/ FirstAcceptedOverBudget

\* C2 witness: the boundary exception happens, one clip longer than a
\* positive budget is returned.
C2_Witness ==
    /\ sel_pc = "returned"
    /\ target_duration > 0
    /\ Len(mp3_paths) = 1
    /\ ProbedSum(mp3_paths) > target_duration

\* C2 second case reached as well: several clips that fill the budget exactly
C2_WitnessFull ==
    /\ sel_pc = "returned"
    /\ Len(mp3_paths) >= 2
    /\ ProbedSum(mp3_paths) = target_duration

C4_FailureIsLocal ==
    /\ sel_pc # "raised"
    /\ \A e \in LogIdx :
        synth_log[e].kind # "ok" =>
            /\ synth_log[e].idx \notin Range(selected)
            /\ Mp3Path(synth_log[e].idx) \notin Range(mp3_paths)
            /\ IF synth_log[e].idx + 1 < Len(comments)
               THEN IF e < Len(synth_log)
                    THEN synth_log[e + 1].idx = synth_log[e].idx + 1
                    ELSE sel_pc = "loop" /\ i = synth_log[e].idx + 1
               ELSE sel_pc = "returned"
    /\ cumulative_duration = FittedSum(synth_log)
    /\ (sel_pc = "returned" /\ \A e \in LogIdx : synth_log[e].kind # "ok") =>
            selected = <<>> /\ mp3_paths = <<>>

\* C4 witness: the probe of the middle segment fails and the segments before
\* and after it are returned without a gap.
C4_Witness ==
    /\ sel_pc = "returned"
    /\ Len(synth_log) = 3
    /\ synth_log[2].kind = "probe"
    /\ selected = <<0, 2>>
    /\ mp3_paths = <<Mp3Path(0), Mp3Path(2)>>
    /\ cumulative_duration > 0

\* C4 second case reached as well: every segment fails, two empty lists
C4_WitnessAllFail ==
    /\ sel_pc = "returned"
    /\ Len(comments) >= 2
    /\ Len(synth_log) = Len(comments)
    /\ \A e \in LogIdx : synth_log[e].kind # "ok"
    /\ selected = <<>> /\ mp3_paths = <<>>

\* ---------------------------------------------------- properties: render
Planned == render_pc \in {"encoding", "done"} \/ render_error = "RuntimeError"
CardIdx == 1..Len(overlays)
\* sum of the durations before card k, negative ones counted as given
RECURSIVE SumBefore(_, _)
SumBefore(durs, k) == IF k <= 1 THEN 0 ELSE SumBefore(durs, k - 1) + durs[k - 1]
\* sum of the non-negative parts of the first k durations
RECURSIVE NonNegSum(_, _)
NonNegSum(durs, k) ==
    IF k = 0 THEN 0
    ELSE NonNegSum(durs, k - 1) + (IF durs[k] > 0 THEN durs[k] ELSE 0)
\* the overlay chain opens one window per card, each starting where the
\* previous one ends
WindowsChained ==
    /\ Len(overlays) = Len(image_durations)
    /\ \A k \in CardIdx :
        /\ overlays[k].img = image_paths[k]
        /\ overlays[k].end = overlays[k].start + image_durations[k]
        /\ overlays[k].start = IF k = 1 THEN 0
                               ELSE overlays[k - 1].start + image_durations[k - 1]
\* the cards whose enable expression is true at instant t
VisibleAt(t) == {k \in CardIdx : Between(t, overlays[k].start, overlays[k].end)}
\* length of the audio stream the encoder muxes
AudioStream == IF mix_bg_audio THEN Max(media.audio_len, media.bg_audio_len)
               ELSE media.audio_len

\* C5 as claimed: the windows start at 0, each starts where the previous one
\* ends, and the total length used to cap the output is the sum of the
\* durations.
C5_Original ==
    Planned =>
        /\ WindowsChained
        /\ total_len = SumBefore(image_durations, Len(image_durations) + 1)

\* C5 amended: in both strategies the windows start at 0 and each starts
\* where the previous one ends; the total length used to cap the output is
\* max(0.1 s, sum of the non-negative durations), which is the sum of the
\* durations only when that sum reaches 0.1 s.
C5_WindowsAndTotal ==
    Planned =>
        /\ WindowsChained
        /\ total_len = Max(MinTotalLen, NonNegSum(image_durations, Len(image_durations)))
        /\ (SumBefore(image_durations, Len(image_durations) + 1) >= MinTotalLen
              => total_len = SumBefore(image_durations, Len(image_durations) + 1))

\* C5 witness: two cards of durations 2 and 3 get the windows starting at 0
\* and 2 and the total 5.
C5_Witness ==
    /\ render_pc = "encoding"
    /\ image_durations = <<2, 3>>
    /\ overlays[1].start = 0 /\ overlays[2].start = 2
    /\ total_len = 5

\* C5 second case reached as well: a long list rendered by the script strategy
C5_WitnessScript ==
    /\ render_pc = "encoding"
    /\ strategy = "script"
    /\ overlays[Len(overlays)].start > 0
    /\ \E k \in CardIdx : image_durations[k] = 0

\* C6 as claimed: at every instant of [0, total_duration), the boundary
\* instants start[i+1] included, exactly one card's enable condition is true
\* (total_duration being the sum of the card durations).
C6_Original ==
    Planned =>
        \A t \in 0..(SumBefore(image_durations, Len(image_durations) + 1) - 1) :
            Cardinality(VisibleAt(t)) = 1

\* C7 as claimed: a card of duration 0 is visible at no instant, the call
\* does not raise on it, and every later card starts at the sum of the
\* durations before it.
C7_Original ==
    (render_pc # "idle" /\ PreconditionError(image_paths, image_durations) = "none") =>
        /\ render_error # "ValueError"
        /\ \A k \in CardIdx :
            image_durations[k] = 0 =>
                /\ \A t \in 0..total_len : k \notin VisibleAt(t)
                /\ \A j \in CardIdx :
                    j > k => overlays[j].start = SumBefore(image_durations, j)

\* C8 as claimed: the written output is as long as the declared total
\* whatever the lengths of the background video and of the audio.
C8_Original ==
    render_pc = "done" => out_duration = total_len

\* C8 amended: the written output is never longer than the declared total
\* (total_len) and is exactly that long whenever the background video and the
\* audio stream are both at least that long, in both strategies; with a
\* shorter input the output can end before the total.
C8_CappedAtTotal ==
    render_pc = "done" =>
        /\ out_duration <= total_len
        /\ (media.bg_len >= total_len /\ AudioStream >= total_len)
              => out_duration = total_len

\* C8 witness: the script strategy with a background longer than the total
\* writes an output of exactly the total.
C8_Witness ==
    /\ render_pc = "done"
    /\ strategy = "script"
    /\ media.bg_len > total_len
    /\ media.audio_len = total_len
    /\ out_duration = total_len

C10_PreconditionFirst ==
    (render_pc # "idle"
     /\ (Len(image_paths) # Len(image_durations) \/ image_paths = <<>>)) =>
        /\ render_pc = "raised"
        /\ render_error = "ValueError"
        /\ monitors_started = 0 /\ ~monitor_running
        /\ temp_created = 0 /\ temp_files = {}
        /\ encoder_runs = 0
        /\ out_duration = -1

\* C10 witness: three images with two durations are rejected.
C10_Witness ==
    /\ render_pc = "raised"
    /\ render_error = "ValueError"
    /\ Len(image_paths) = 3
    /\ Len(image_durations) = 2
    /\ encoder_runs = 0

\* C10 second case reached as well: the empty image list is rejected
C10_WitnessEmpty ==
    /\ render_pc = "raised"
    /\ render_error = "ValueError"
    /\ image_paths = <<>> /\ image_durations = <<>>

\* ---------------------------------------------------- properties: concat
\* C11: a call of concat_audio with an empty path list raises ValueError,
\* no ffmpeg or ffprobe process has been started by it, and the output file
\* is as it was before the call (neither created nor overwritten).
C11_EmptyRaisesFirst ==
    (concat_pc # "idle" /\ audio_paths = <<>>)
        => /\ concat_pc = "raised"
           /\ concat_error = "ValueError"
           /\ concat_procs = 0
           /\ concat_probes = 0
           /\ out_mp3 = out_mp3_before
           /\ total_duration = -1
C11_Witness ==
    concat_pc = "raised" /\ audio_paths = <<>> /\ out_mp3_before = "old" /\ out_mp3 = "old"

\* C21: a concat_audio call that returned gave back the sum of the probed
\* durations of its input clips, one probe per path, whatever duration the
\* concatenated output file itself reports.
C21_SumOfProbedInputs ==
    concat_pc = "returned"
        => /\ total_duration = SumSeq(audio_lens)
           /\ concat_probes = Len(audio_paths)
           /\ out_mp3 = "written"
\* C21 witness: two clips of lengths 1 and 2, the written file reports 4
C21_Witness ==
    /\ concat_pc = "returned"
    /\ audio_lens = <<1, 2>>
    /\ out_len = 4
    /\ total_duration = 3

\* -------------------------------------------------- properties: pipeline
\* the background step of make_from_url has been executed
AfterSelection == background # "unread"
\* external invocations of the run so far: those make_from_url made itself
\* and the syntheses and probes of the selection loop
ExternalCalls == Len(ext_calls) + Len(synth_log)

\* C12 as stated: when make_from_url ends with FileNotFoundError (no
\* background path, auto generation disabled), no speech synthesis, duration
\* probe or encoder has been invoked in the run.
C12_Original ==
    pipe_error = "FileNotFoundError" => ExternalCalls = 0

\* C13 as stated: a run whose selection ended with no accepted comment never
\* goes on to assemble and render.
C13_Original ==
    (AfterSelection /\ selected = <<>>)
        => /\ pipe_pc # "assemble"
           /\ "ffmpeg concat" \notin Range(ext_calls)
           /\ render_calls = 0

\* C13 amended: a run whose selection ended with no accepted comment is not
\* stopped for that reason; it ends only with an error of a later step
\* (background, concat_audio, the render_video call), and when concat_audio
\* succeeds render_video is called with the title card alone and the title's
\* probed duration.
C13_TitleOnlyProceeds ==
    (AfterSelection /\ selected = <<>>)
        => /\ pipe_error \in {"none", "FileNotFoundError", "OSError", "RuntimeError", "TypeError"}
           /\ render_calls > 0 => (images = <<0>> /\ durations = <<title_duration>>)
           /\ (pipe_error = "TypeError" \/ render_started) => render_calls > 0
\* C13 witness: every synthesis of a two-comment thread failed although time
\* remained, and render_video was called
C13_Witness ==
    /\ render_calls = 1
    /\ selected = <<>>
    /\ Len(thread_comments) = 2
    /\ remaining_duration > 0
    /\ Len(synth_log) = 2
\* C13 second case reached as well: the title used up the whole budget
C13_WitnessTitleFills ==
    /\ render_calls = 1
    /\ selected = <<>>
    /\ thread_comments # <<>>
    /\ remaining_duration = 0
    /\ synth_log = <<>>

\* C19 as stated: a render_video call that is handed a caption filter is
\* accepted and the render goes ahead.
C19_Original ==
    (render_calls > 0 /\ word_captions_filter = "filter")
        => (render_started /\ pipe_error # "TypeError")

\* the durations the selection used in its budget test for the comments it
\* kept, in the order it kept them
RECURSIVE KeptDurs(_)
KeptDurs(log) ==
    IF log = <<>> THEN <<>>
    ELSE (IF Head(log).kept THEN <<Head(log).dur>> ELSE <<>>) \o KeptDurs(Tail(log))
\* the durations the files of the kept clips have
FileDurs(paths) == [k \in 1..Len(paths) |-> mp3_files[paths[k]].dur]

C24_CardsPairedWithClips ==
    render_calls > 0
        => /\ Len(images) = 1 + Len(selected)
           /\ Len(durations) = Len(images)
           /\ durations = <<title_duration>> \o KeptDurs(synth_log)
           /\ durations = <<title_duration>> \o FileDurs(mp3_paths)
           /\ SumSeq(durations) = title_duration + ProbedSum(mp3_paths)
\* C24 witness: two comments kept, with different durations
C24_Witness ==
    /\ render_calls = 1
    /\ Len(selected) = 2
    /\ durations[2] # durations[3]

\* ------------------------------------------ properties: encoder failures
\* C14: once the encoder process has exited with a non-zero code, render_video
\* has raised RuntimeError whose text carries what the process wrote to
\* stderr, in the inline and in the script strategy alike, and the encoder
\* was launched once; no call launches it more than once.
C14_StderrCarriedNoRetry ==
    /\ encoder_runs <= 1
    /\ (encoder_rc # -1 /\ encoder_rc # 0)
          => /\ render_pc = "raised"
             /\ render_error = "RuntimeError"
             /\ encoder_stderr # "" => error_text = encoder_stderr
             /\ encoder_runs = 1
             /\ out_duration = -1
\* C14 witness: the inline strategy raised with the encoder's diagnostics
C14_Witness ==
    /\ strategy = "standard"
    /\ encoder_rc = 1
    /\ encoder_stderr = "diagnostics"
    /\ render_error = "RuntimeError"
    /\ error_text = "diagnostics"
\* C14 in the script strategy as well
C14_WitnessScript ==
    /\ strategy = "script"
    /\ encoder_rc = 1
    /\ encoder_stderr = "diagnostics"
    /\ render_error = "RuntimeError"
    /\ error_text = "diagnostics"

\* C17: whether the removal of the progress file, of the filter script or of
\* a discarded clip succeeds or fails, a render whose encoder exited with 0
\* returns normally, a render whose encoder failed raises the encoder's
\* RuntimeError, and the selection never raises.
C17_CleanupNeverDecides ==
    /\ encoder_rc = 0 => (render_pc = "done" /\ render_error = "none" /\ out_duration # -1)
    /\ (encoder_rc # -1 /\ encoder_rc # 0)
          => (render_pc = "raised" /\ render_error = "RuntimeError")
    /\ sel_pc # "raised"
\* C17 witness: the encoder succeeded and neither temp file could be removed
C17_Witness ==
    /\ encoder_rc = 0
    /\ render_pc = "done"
    /\ temp_files = {"script", "progress"}
\* C17, failed encode: the progress file could not be removed either
C17_WitnessFailedEncode ==
    /\ encoder_rc = 1
    /\ render_error = "RuntimeError"
    /\ "progress" \in temp_files
\* C17, selection: a discarded clip could not be removed and the call returned
C17_WitnessDiscardedClip ==
    /\ sel_pc = "returned"
    /\ \E k \in LogIdx : synth_log[k].kind = "ok" /\ ~synth_log[k].kept /\ ~synth_log[k].removed

\* C18: a call that passes the precondition uses the script strategy exactly
\* when it has more than 50 images and the inline strategy otherwise, and
\* launches one encoder; a rejected call uses neither.
C18_StrategyByCount ==
    /\ Planned => /\ strategy \in {"standard", "script"}
                  /\ strategy = "script" <=> Len(image_paths) > 50
                  /\ strategy = "standard" <=> Len(image_paths) <= 50
                  /\ encoder_runs = 1
    /\ ~Planned => (strategy = "none" /\ encoder_runs = 0)
\* C18 witness: exactly 50 images were rendered by the inline strategy
C18_Witness ==
    /\ render_pc = "done"
    /\ Len(image_paths) = 50
    /\ strategy = "standard"
\* C18, other side of the threshold: 51 images were rendered by the script strategy
C18_WitnessScript ==
    /\ render_pc = "done"
    /\ Len(image_paths) = 51
    /\ strategy = "script"

\* C20: in either strategy the overlay chain holds the cards in list order,
\* the card at index 0 without the opacity filter and every later card with it.
C20_OpacityAndOrder ==
    Planned => /\ Len(overlays) = Len(image_paths)
               /\ \A k \in 1..Len(overlays) :
                     /\ overlays[k].img = image_paths[k]
                     /\ overlays[k].apply_opacity <=> (k - 1 >= 1)
\* C20 witness: three cards in the inline strategy
C20_Witness ==
    /\ render_pc = "done"
    /\ strategy = "standard"
    /\ Len(overlays) = 3
    /\ ~overlays[1].apply_opacity /\ overlays[2].apply_opacity /\ overlays[3].apply_opacity
\* C20 in the script strategy as well
C20_WitnessScript ==
    /\ render_pc = "done"
    /\ strategy = "script"
    /\ ~overlays[1].apply_opacity
    /\ \A k \in 2..Len(overlays) : overlays[k].apply_opacity

\* --------------------------------------------------- properties: monitor
\* C15: every value the monitor passed to the callback lies in [0, 1] (its
\* numerator between 0 and the duration) and is not below the value passed
\* before it, whatever the encoder wrote and whenever the file was unreadable.
C15_CallbackMonotoneInUnit ==
    \A k \in 1..Len(reported) :
        /\ 0 <= reported[k]
        /\ reported[k] <= mon_duration
        /\ k > 1 => reported[k] >= reported[k - 1]
\* C15 witness: three callbacks, with a regressing and a missing reading
\* among the reads, and a reading beyond the duration
C15_Witness ==
    /\ Len(reported) = 3
    /\ regressed
    /\ missed
    /\ reported[3] = mon_duration
    /\ reported[1] < mon_duration

\* C16 as stated: when the with block has been left, the monitor thread has
\* ended and the progress file is gone.
C16_Original ==
    mon_pc \in {"returned", "raised"} => (thr_pc = "exited" /\ ~progress_file)

\* C16 amended: the encoder is launched only after the monitor was started,
\* and when the with block has been left, on any outcome of the encoder, the
\* stop event is set and the removal of the progress file was attempted; the
\* thread has ended unless the join timed out, the file is gone unless its
\* removal failed.
C16_StartedBeforeStopRequested ==
    /\ mon_pc \in {"encoding", "finally", "exit", "joining", "returned", "raised"}
          => launched_after_start
    /\ mon_pc \in {"returned", "raised"}
          => /\ stop_event
             /\ bar_closed
             /\ progress_file <=> remove_failed
             /\ thr_pc # "exited" => join_timed_out
\* C16 witness: the encoder could not be launched, the block was left with
\* the exception, the thread ended and the file was removed
C16_Witness ==
    /\ mon_pc = "raised"
    /\ enc_outcome = "exception"
    /\ thr_pc = "exited"
    /\ ~progress_file
    /\ ~join_timed_out
\* C16, the cases of the amendment: the join timed out, the removal failed
C16_WitnessLeftBehind ==
    /\ mon_pc = "returned"
    /\ thr_pc # "exited"
    /\ join_timed_out
    /\ progress_file

\* ---------------------------------------------- properties: parallel TTS
\* C22: the list a parallel synthesis returns is as long as texts, holds at
\* position i what the task of texts[i] produced, whatever the order in
\* which the tasks finished and were collected, has no unset entry, and
\* holds (False, None, None, error) exactly at the positions whose task failed.
C22_ResultsInInputOrder ==
    par_pc = "returned"
        => /\ Len(par_results) = Len(par_texts)
           /\ \A k \in 1..Len(par_results) :
                 /\ par_results[k] # NoResult
                 /\ par_results[k] = task_out[k]
                 /\ par_results[k].index = par_texts[k]
                 /\ ~par_results[k].success
                       => par_results[k] = SingleFailed(par_texts[k])
\* C22 witness: three segments run by the thread pool, the middle one failed,
\* the outer two succeeded with different durations
C22_Witness ==
    /\ par_pc = "returned"
    /\ par_mode = "threads"
    /\ Len(par_texts) = 3
    /\ par_results[1].success /\ ~par_results[2].success /\ par_results[3].success
    /\ par_results[1].duration # par_results[3].duration
\* C22 in the asyncio variant as well
C22_WitnessAsync ==
    /\ par_pc = "returned"
    /\ par_mode = "async"
    /\ Len(par_texts) = 3
    /\ par_results[1].success /\ ~par_results[2].success /\ par_results[3].success

\* ---------------------------------------------- properties: probe cache
\* C25 as stated: whenever a path has been probed twice and its file's bytes
\* were the same at both probes, the two probes returned the same value.
C25_Original ==
    \A path \in ProbePaths :
        (prev_probe[path] # NoProbe /\ prev_probe[path].ver = last_probe[path].ver)
            => prev_probe[path].val = last_probe[path].val

\* ------------------------------------------- properties: concurrent runs
Touched(r) == run_written[r] \cup run_deleted[r]
AutoEnded == auto_pc \in {"succeeded", "failed"}
Searched == auto_pc \in {"found", "exited", "succeeded", "failed"}
\* positions of the listings in search order
Positions == {<<s, k>> \in AutoSubreddits \X (1..MaxListing) : k <= Len(listings[s])}
Earlier(p, q) == p[1] < q[1] \/ (p[1] = q[1] /\ p[2] < q[2])
SumOfEarlier(seg) == SumSeq([x \in 1..(seg - 1) |-> cap_segments[x].dur])
\* every word's absolute window is its local window shifted by the probed
\* durations of the earlier segments
CaptionOffsetsExact ==
    cap_pc = "filter" =>
        \A w \in 1..Len(caption_words) :
            LET wt == caption_words[w]
                local == cap_segments[wt.seg].words[wt.k]
            IN /\ wt.start_ms = local.start_ms + SumOfEarlier(wt.seg)
               /\ wt.end_ms = local.end_ms + SumOfEarlier(wt.seg)
\* the instants around the ends of the windows
CapInstants == 0..(4 * MaxCapMs + 1)
\* C28 as stated: every word's absolute window is its local window shifted by
\* the durations of the earlier segments, and its enable condition is true
\* only at instants t with start_ms <= t < end_ms.
C28_Original ==
    /\ CaptionOffsetsExact
    /\ cap_pc = "filter" =>
          \A w \in 1..Len(caption_words), t \in CapInstants :
              EnabledAt(t, cap_enable[w]) =>
                  (caption_words[w].start_ms <= t /\ t < caption_words[w].end_ms)
\* a word of the third segment, shifted by two durations
CaptionShiftedTwice ==
    /\ cap_pc = "filter"
    /\ \E w \in 1..Len(caption_words) :
          /\ caption_words[w].seg = 3
          /\ SumOfEarlier(3) > cap_segments[1].dur
          /\ cap_segments[1].dur > 0

\* ---------------------------------------- properties: monitor shutdown
\* C29 as stated: no callback is invoked after the finally clause closed the
\* progress bar, and when __exit__ has returned the monitor thread has ended.
C29_Original ==
    /\ ~late_callback
    /\ mon_pc \in {"returned", "raised"} => thr_pc = "exited"

\* C29 amended: once the stop event is set the thread starts no further
\* callback (one that had passed the loop test may still run), an ended
\* thread makes no callback, and when __exit__ has returned the stop event
\* is set and the thread has ended unless the join timed out.
C29_NoNewCallbackAfterStop ==
    /\ [](mon_pc \in {"returned", "raised"} => (stop_event /\ (thr_pc = "exited" \/ join_timed_out)))
    /\ [][(stop_event /\ thr_pc = "loop") => thr_pc' \in {"loop", "exited"}]_vars
    /\ [][thr_pc = "exited" => (thr_pc' = "exited" /\ reported' = reported)]_vars
\* a callback ran after the bar was closed, the thread then saw the stop
\* event and ended before the join returned
C29_Witness ==
    /\ late_callback
    /\ stop_event
    /\ mon_pc = "returned"
    /\ thr_pc = "exited"
    /\ ~join_timed_out

====
